---- MODULE Spec2Model ----
(***************************************************************************)
(* The Select component (searchable single-select dropdown): its props,   *)
(* its hook state, the pending window timers, and one action per event    *)
(* handler.  Indices are 0-based as in the component; children[i] of the  *)
(* component is children[i + 1] here.                                      *)
(***************************************************************************)
EXTENDS Integers, Sequences, FiniteSets, TLC

VARIABLES
    children,            \* prop: the option elements, in order
    value,               \* prop: the owner's current selection (or undefined)
    controlledOpen,      \* prop isOpen: "undefined", "true" or "false"
    getSearchableValue,  \* prop: TRUE when the projection function is supplied
    focusedIndex,        \* useState<number | null>: Null or Some(i)
    uncontrolledOpen,    \* useState(false)
    search,              \* useState(''): a sequence of characters
    searchClearTimeout,  \* useRef: 0 (undefined) or a timer handle
    timers,              \* window timers pending: a set of [id, left]
    mounted,             \* FALSE once the component is unmounted
    sinceKey,            \* ticks since the last key the search took, up to clearSearchAfter
    out                  \* calls made by the last handler, in order

vars == <<children, value, controlledOpen, getSearchableValue, focusedIndex,
          uncontrolledOpen, search, searchClearTimeout, timers, mounted, sinceKey, out>>

props == <<children, value, controlledOpen, getSearchableValue>>

----------------------------------------------------------------------------
(* Bounds of the model.                                                    *)

MaxSearch == 2

\* goToNextItem counts on past the end of a list that has shrunk or is
\* empty; the walk is cut at this index.
FocusLimit == 3

\* clearSearchAfter = 500 ms, in ticks of 250 ms.
clearSearchAfter == 2

----------------------------------------------------------------------------
(* JavaScript values: strings (compared by content) and objects (=== by    *)
(* reference, deep equality by content).                                   *)

Str(s) == [t |-> "string", ref |-> 0, s |-> s]

Obj(r, s) == [t |-> "object", ref |-> r, s |-> s]

Undefined == [t |-> "undefined", ref |-> 0, s |-> <<>>]

Null == <<>>

Some(i) == <<i>>

\* x === y
StrictEq(x, y) ==
    IF x.t = "object" /\ y.t = "object" THEN x.ref = y.ref ELSE x = y

\* isDeepEqual(x, y): structural equality
isDeepEqual(x, y) == x.t = y.t /\ x.s = y.s

\* String(v)
String(v) ==
    CASE v.t = "string" -> v.s
      [] v.t = "object" ->
            <<"[", "o", "b", "j", "e", "c", "t", " ", "O", "b", "j", "e", "c", "t", "]">>
      [] OTHER -> <<"u", "n", "d", "e", "f", "i", "n", "e", "d">>

\* str.startsWith(prefix)
startsWith(str, prefix) ==
    /\ Len(prefix) <= Len(str)
    /\ SubSeq(str, 1, Len(prefix)) = prefix

\* x || y on strings: the empty string is falsy
OrString(x, y) == IF x # <<>> THEN x ELSE y

\* x || 0 on number | null: null and 0 are falsy
OrZero(x) == IF x # Null /\ x # Some(0) THEN x ELSE Some(0)

----------------------------------------------------------------------------
(* The inputs the owner draws from.                                        *)

aB == Str(<<"a", "B">>)

ab == Str(<<"a", "b">>)

obj1 == Obj(1, <<"id", "1">>)

\* a second object with the content of obj1
obj1Copy == Obj(2, <<"id", "1">>)

\* an Option element: props value, children (its label) and title
Option(v, label, title) == [value |-> v, children |-> label, title |-> title]

Options == { Option(aB, "Alpha", ""), Option(ab, "", "Beta"), Option(obj1, "One", "") }

\* the lists of distinct options, in every order
OptionLists ==
    { l \in UNION { [1..n -> Options] : n \in 0..Cardinality(Options) } :
        \A i, j \in 1..Len(l) : l[i] = l[j] => i = j }

ValueProps == { Undefined, ab, obj1, obj1Copy }

\* the owner's projection, where it supplies one
GetSearchableValue(v) ==
    CASE v = aB -> <<"b">>
      [] v = ab -> <<>>
      [] v.t = "object" -> <<"a", "b">>
      [] OTHER -> <<>>

\* e.key values: characters and named keys
CharKeys == { "a", "b", "-" }

NamedKeys == { "ArrowUp", "ArrowDown", "Escape", "Shift" }

MenuKeys == CharKeys \cup NamedKeys

AnchorKeys == { " ", "Enter" }

\* /^[a-z0-9]+$/i.test(key)
isAlphanumeric(key) == key \notin { "-", " " }

\* key.length === 1
isLengthOne(key) == key \in CharKeys \cup { " " }

----------------------------------------------------------------------------
(* Values derived on each render.                                          *)

isControlled == controlledOpen # "undefined"

isOpen == IF isControlled THEN controlledOpen = "true" ELSE uncontrolledOpen

allOptionValues == [i \in 1..Len(children) |-> children[i].value]

\* array.findIndex(P), given hits[i] = P(array[i]): the first 0-based index
\* whose element satisfies P, or -1
findIndex(hits) ==
    IF \E i \in 1..Len(hits) : hits[i]
    THEN (CHOOSE i \in 1..Len(hits) : hits[i] /\ \A j \in 1..(i - 1) : ~hits[j]) - 1
    ELSE -1

isNaturallySearchable == \A i \in 1..Len(children) : allOptionValues[i].t = "string"

isSearchable == isNaturallySearchable \/ getSearchableValue

\* a selection that falls back on the first option when none is found
selectedIndexOrFirst ==
    LET index == findIndex([i \in 1..Len(children) |-> StrictEq(children[i].value, value)])
    IN  IF index # -1 THEN Some(index)
        ELSE IF children # <<>> THEN Some(0) ELSE Null

selectedIndex ==
    LET index == findIndex([i \in 1..Len(children) |-> StrictEq(children[i].value, value)])
    IN  IF index # -1 THEN Some(index) ELSE Null

\* getSearchableValue?.(v) || String(v)
searchableString(v) ==
    IF getSearchableValue THEN OrString(GetSearchableValue(v), String(v)) ELSE String(v)

indexOfMatchedOption(s) ==
    findIndex([i \in 1..Len(allOptionValues) |->
                  startsWith(searchableString(allOptionValues[i]), s)])

\* items[i].props.selected and items[i].props.active, i 0-based
itemSelected(i) == isDeepEqual(children[i + 1].value, value)

itemActive(i) == focusedIndex = Some(i)

selectedChild ==
    IF selectedIndex # Null THEN Some(children[selectedIndex[1] + 1]) ELSE Null

Placeholder == "placeholder"

\* selectedChild?.props?.children || selectedChild?.props?.title || placeholder
displayedValue ==
    IF selectedChild = Null THEN Placeholder
    ELSE IF selectedChild[1].children # "" THEN selectedChild[1].children
    ELSE IF selectedChild[1].title # "" THEN selectedChild[1].title
    ELSE Placeholder

----------------------------------------------------------------------------
(* Calls the component makes: the owner's callbacks (each through ?.) and  *)
(* the focus request on the anchor.                                        *)

Call(name) == [call |-> name, value |-> Undefined, selectedIndex |-> -1]

ChangeEvent(v, i) == [call |-> "onChange", value |-> v, selectedIndex |-> i]

----------------------------------------------------------------------------
(* The component's functions.                                              *)

\* open() setting the internal flag whoever owns the open state
openSetsFlagAlways ==
    /\ uncontrolledOpen' = TRUE
    /\ focusedIndex' = OrZero(selectedIndex)

\* open(): the state it sets
open ==
    /\ uncontrolledOpen' = (IF isControlled THEN uncontrolledOpen ELSE TRUE)
    /\ focusedIndex' = OrZero(selectedIndex)

openCalls == IF isControlled THEN <<Call("onOpen")>> ELSE <<>>

\* a close() that leaves the internal flag as it is
closeKeepsFlag == UNCHANGED uncontrolledOpen

\* close(): the state it sets
close ==
    uncontrolledOpen' = (IF isControlled THEN uncontrolledOpen ELSE FALSE)

closeCalls == IF isControlled THEN <<Call("onClose")>> ELSE <<>>

\* goToPreviousItem(): the focusedIndex it leaves
goToPreviousItem ==
    IF focusedIndex # Null /\ focusedIndex # Some(0)
    THEN Some(focusedIndex[1] - 1)
    ELSE focusedIndex

\* goToNextItem() without the test for the last index
goToNextItemUnclamped ==
    IF focusedIndex # Null THEN Some(focusedIndex[1] + 1) ELSE focusedIndex

\* goToNextItem(): the focusedIndex it leaves
goToNextItem ==
    IF focusedIndex # Null /\ focusedIndex # Some(Len(children) - 1)
    THEN Some(focusedIndex[1] + 1)
    ELSE focusedIndex

\* handleChildChange reporting the option's position counted from 1
handleChildChangeOneBased(index, v) == <<ChangeEvent(v, index + 1)>>

\* handleChildChange(index)(v) -> handleChange -> onChangeProp?.(event)
handleChildChange(index, v) == <<ChangeEvent(v, index)>>

\* the value Option i hands to its onChange: its own value prop
optionOnChangeValue(i) == children[i + 1].value

----------------------------------------------------------------------------
(* Window timers.                                                          *)

\* a clearTimeout that cancels nothing
clearTimeoutNothing(ts, handle) == ts

\* window.clearTimeout(handle)
clearTimeout(ts, handle) == { t \in ts : t.id # handle }

\* the handle window.setTimeout returns: one no pending timer has
freshHandle(ts) == CHOOSE h \in 1..(Cardinality(ts) + 1) : \A t \in ts : t.id # h

\* the effect cancelling the pending clear without scheduling a new one
searchEffectTimersNoSchedule(s) ==
    IF s = <<>> \/ ~isSearchable THEN timers
    ELSE clearTimeout(timers, searchClearTimeout)

\* useEffect([search]) once search has become s: the timers it leaves
searchEffectTimers(s) ==
    IF s = <<>> \/ ~isSearchable THEN timers
    ELSE LET cleared == clearTimeout(timers, searchClearTimeout)
         IN  cleared \cup { [id |-> freshHandle(cleared), left |-> clearSearchAfter] }

\* ... the handle it stores in searchClearTimeout.current
searchEffectHandle(s) ==
    IF s = <<>> \/ ~isSearchable THEN searchClearTimeout
    ELSE freshHandle(clearTimeout(timers, searchClearTimeout))

\* ... the focusedIndex it leaves, from the handler's focusedIndex f
searchEffectFocus(s, f) ==
    IF s = <<>> \/ ~isSearchable THEN f
    ELSE IF indexOfMatchedOption(s) # -1 THEN Some(indexOfMatchedOption(s)) ELSE f

----------------------------------------------------------------------------
Init ==
    /\ children \in OptionLists
    /\ value \in ValueProps
    /\ controlledOpen \in { "undefined", "true", "false" }
    /\ getSearchableValue \in BOOLEAN
    /\ focusedIndex = Null
    /\ uncontrolledOpen = FALSE
    /\ search = <<>>
    /\ searchClearTimeout = 0
    /\ timers = {}
    /\ mounted = TRUE
    /\ sinceKey = clearSearchAfter
    /\ out = <<>>

\* a click that opens whatever the open state is
handleAnchorClickOpensOnly ==
    /\ mounted
    /\ UNCHANGED <<props, search, searchClearTimeout, timers, mounted, sinceKey>>
    /\ open /\ out' = openCalls

\* onClick of the anchor
handleAnchorClick ==
    /\ mounted
    /\ UNCHANGED <<props, search, searchClearTimeout, timers, mounted, sinceKey>>
    /\ IF isOpen
       THEN close /\ out' = closeCalls /\ UNCHANGED focusedIndex
       ELSE open /\ out' = openCalls

\* onKeyDown of the anchor
handleAnchorKeydown(key) ==
    /\ mounted
    /\ UNCHANGED <<props, search, searchClearTimeout, timers, mounted, sinceKey>>
    /\ IF key = " "
       THEN open /\ out' = openCalls
       ELSE out' = <<>> /\ UNCHANGED <<uncontrolledOpen, focusedIndex>>

\* a key that replaces the buffer
appendKeyReplaces(s, key) == <<key>>

\* setSearch((s) => s + e.key)
appendKey(s, key) == Append(s, key)

\* the key test without isSearchable
acceptsKeyUnsearchable(key) == isAlphanumeric(key) /\ isLengthOne(key)

\* the key is appended to search: setSearch((s) => s + key)
acceptsKey(key) == isAlphanumeric(key) /\ isSearchable /\ isLengthOne(key)

\* onKeyDown of the list, which the dropdown renders while it is open; the
\* [search] effect runs with the render the key causes.
handleMenuKeydown(key) ==
    /\ mounted
    /\ UNCHANGED <<props, mounted>>
    /\ isOpen
    /\ acceptsKey(key) => Len(search) < MaxSearch
    /\ key = "ArrowDown" /\ focusedIndex # Null => goToNextItem[1] <= FocusLimit
    /\ LET newSearch == IF acceptsKey(key) THEN appendKey(search, key) ELSE search
           handled == CASE key = "ArrowUp" -> goToPreviousItem
                        [] key = "ArrowDown" -> goToNextItem
                        [] OTHER -> focusedIndex
       IN  /\ search' = newSearch
           /\ sinceKey' = IF newSearch # search THEN 0 ELSE sinceKey
           /\ IF newSearch # search
              THEN /\ timers' = searchEffectTimers(newSearch)
                   /\ searchClearTimeout' = searchEffectHandle(newSearch)
                   /\ focusedIndex' = searchEffectFocus(newSearch, handled)
              ELSE /\ focusedIndex' = handled
                   /\ UNCHANGED <<timers, searchClearTimeout>>
    /\ IF key = "Escape"
       THEN close /\ out' = closeCalls \o <<Call("anchor.focus")>>
       ELSE out' = <<>> /\ UNCHANGED uncontrolledOpen

\* an activation that also closes the menu
optionChangeCloses(i) ==
    /\ mounted
    /\ UNCHANGED <<props, focusedIndex, search, searchClearTimeout, timers, mounted,
                   sinceKey>>
    /\ isOpen
    /\ close
    /\ out' = handleChildChange(i, optionOnChangeValue(i)) \o closeCalls

\* an activation that also commits the option's value as the selection
optionChangeCommits(i) ==
    /\ mounted
    /\ UNCHANGED <<children, controlledOpen, getSearchableValue, focusedIndex,
                   uncontrolledOpen, search, searchClearTimeout, timers, mounted, sinceKey>>
    /\ isOpen
    /\ out' = handleChildChange(i, optionOnChangeValue(i))
    /\ value' = optionOnChangeValue(i)

\* an option of the open list is activated
optionChange(i) ==
    /\ mounted
    /\ UNCHANGED <<props, focusedIndex, uncontrolledOpen, search,
                   searchClearTimeout, timers, mounted, sinceKey>>
    /\ isOpen
    /\ out' = handleChildChange(i, optionOnChangeValue(i))

\* an onClose that also empties the search buffer
dropdownCloseClearsSearch ==
    /\ mounted
    /\ UNCHANGED <<props, focusedIndex, searchClearTimeout, timers, mounted, sinceKey>>
    /\ search' = <<>>
    /\ close
    /\ out' = closeCalls

\* the dropdown's onClose
dropdownClose ==
    /\ mounted
    /\ UNCHANGED <<props, focusedIndex, search, searchClearTimeout, timers, mounted,
                   sinceKey>>
    /\ close
    /\ out' = closeCalls

\* a tick of the clock: every pending timer is a tick nearer, and those due
\* run their callback, setSearch(''), which an unmounted component ignores.
Tick ==
    /\ timers # {}
    /\ timers' = { [id |-> t.id, left |-> t.left - 1] : t \in { u \in timers : u.left > 1 } }
    /\ LET due == { t \in timers : t.left = 1 }
       IN  /\ search' = IF due # {} /\ mounted THEN <<>> ELSE search
           /\ out' = IF due # {} /\ ~mounted THEN <<Call("setSearch.unmounted")>> ELSE <<>>
    /\ sinceKey' = IF sinceKey < clearSearchAfter THEN sinceKey + 1 ELSE sinceKey
    /\ UNCHANGED <<props, focusedIndex, uncontrolledOpen, searchClearTimeout, mounted>>

\* the owner renders the component again with other props
setChildren(list) ==
    /\ mounted
    /\ UNCHANGED <<value, controlledOpen, getSearchableValue, focusedIndex,
                   uncontrolledOpen, search, searchClearTimeout, timers, mounted, sinceKey>>
    /\ children' = list
    /\ out' = <<>>

setValue(v) ==
    /\ mounted
    /\ UNCHANGED <<children, controlledOpen, getSearchableValue, focusedIndex,
                   uncontrolledOpen, search, searchClearTimeout, timers, mounted, sinceKey>>
    /\ value' = v
    /\ out' = <<>>

\* an owner that supplies isOpen keeps supplying it
setIsOpen(o) ==
    /\ mounted
    /\ UNCHANGED <<children, value, getSearchableValue, focusedIndex,
                   uncontrolledOpen, search, searchClearTimeout, timers, mounted, sinceKey>>
    /\ isControlled
    /\ controlledOpen' = o
    /\ out' = <<>>

\* the component is unmounted: the effect returns no cleanup
unmount ==
    /\ mounted
    /\ UNCHANGED <<props, focusedIndex, uncontrolledOpen, search,
                   searchClearTimeout, timers, sinceKey>>
    /\ mounted' = FALSE
    /\ out' = <<>>

Next ==
    \/ handleAnchorClick
    \/ \E key \in AnchorKeys : handleAnchorKeydown(key)
    \/ \E key \in MenuKeys : handleMenuKeydown(key)
    \/ \E i \in 0..(Len(children) - 1) : optionChange(i)
    \/ dropdownClose
    \/ Tick
    \/ \E list \in OptionLists : setChildren(list)
    \/ \E v \in ValueProps : setValue(v)
    \/ \E o \in { "true", "false" } : setIsOpen(o)

Spec == Init /\ [][Next]_vars

\* the same widget over a lifetime that ends
NextLifecycle == Next \/ unmount

SpecLifecycle == Init /\ [][NextLifecycle]_vars

----------------------------------------------------------------------------
(* The properties checked.                                                 *)

\* the options the list marks selected (deep equality with value), 0-based
markedSelected == { i \in 0..(Len(children) - 1) : itemSelected(i) }

\* an open action on the anchor: a click while closed, or the Space key
openOnAnchor == (~isOpen /\ handleAnchorClick) \/ handleAnchorKeydown(" ")

\* C1: an open action on the anchor sets FocusedIndex to the index of the
\* option that is the current selection (the one the list marks selected)
\* if there is one, and to 0 otherwise.
C1_OpenFocusesSelection ==
    [][openOnAnchor =>
          focusedIndex' = IF markedSelected # {}
                          THEN Some(CHOOSE i \in markedSelected :
                                        \A j \in markedSelected : i <= j)
                          ELSE Some(0)]_vars

\* C2: in every reachable state FocusedIndex is null or an index of the
\* current option list: never negative, never >= the option count.
C2_FocusedIndexInBounds ==
    focusedIndex # Null => focusedIndex[1] \in 0..(Len(children) - 1)

\* an arrow key on the open list
arrowDown == handleMenuKeydown("ArrowDown")

arrowUp == handleMenuKeydown("ArrowUp")

inRange(f) == f # Null /\ f[1] \in 0..(Len(children) - 1)

\* C3: with n options, ArrowDown takes FocusedIndex from i to i+1 when
\* i < n-1 and leaves it at n-1; ArrowUp takes it from i to i-1 when i > 0
\* and leaves it at 0; neither moves it out of [0, n-1].
C3_ArrowsClamp ==
    [][focusedIndex # Null =>
        LET i == focusedIndex[1]
            n == Len(children)
        IN  /\ arrowDown =>
                /\ i < n - 1 => focusedIndex' = Some(i + 1)
                /\ i = n - 1 => focusedIndex' = Some(i)
            /\ arrowUp =>
                /\ i > 0 => focusedIndex' = Some(i - 1)
                /\ i = 0 => focusedIndex' = Some(0)
            /\ (arrowDown \/ arrowUp) /\ inRange(focusedIndex) => inRange(focusedIndex')]_vars

\* C3 happens: the focus has been walked to the last of three options
C3_Witness ==
    /\ isOpen
    /\ Len(children) = 3
    /\ focusedIndex = Some(2)
    /\ selectedIndex = Null
    /\ search = <<>>
    /\ searchClearTimeout = 0

\* the searchable string as the claim has it: the projection's result if a
\* projection is supplied, otherwise the option's string value
projectedString(v) == IF getSearchableValue THEN GetSearchableValue(v) ELSE v.s

\* the options whose searchable string starts with s, 0-based
prefixMatches(s) ==
    { i \in 0..(Len(children) - 1) : startsWith(projectedString(children[i + 1].value), s) }

\* a character key the search takes
typeAhead == \E key \in CharKeys : acceptsKey(key) /\ handleMenuKeydown(key)

\* C4: for a non-empty SearchBuffer over a searchable list, the matcher sets
\* FocusedIndex to the smallest index whose searchable string starts with
\* the buffer, and leaves it unchanged when there is none.
C4_MatcherFocusesFirstPrefix ==
    [][typeAhead =>
          focusedIndex' = IF prefixMatches(search') # {}
                          THEN Some(CHOOSE i \in prefixMatches(search') :
                                        \A j \in prefixMatches(search') : i <= j)
                          ELSE focusedIndex]_vars

\* the clear the component has scheduled and not yet seen run
pendingClear == { t \in timers : t.id = searchClearTimeout }

\* C5: a non-empty SearchBuffer has seen a key less than clearSearchAfter
\* ago and has a clear pending that is due at clearSearchAfter after that
\* key: the buffer does not outlive clearSearchAfter without input.
C5_SearchClearsAfterTimeout ==
    search # <<>> =>
        /\ sinceKey < clearSearchAfter
        /\ \E t \in pendingClear : t.left = clearSearchAfter - sinceKey

\* C5 happens: a buffer was typed and the timer has emptied it
C5_Witness ==
    /\ search = <<>>
    /\ searchClearTimeout # 0
    /\ timers = {}
    /\ sinceKey = clearSearchAfter

changeEvents(calls) == { k \in 1..Len(calls) : calls[k].call = "onChange" }

\* C6: activating option i makes exactly one onChange call, with option i's
\* value and selectedIndex = i; no other action calls onChange.
C6_OneChangeEventPerSelection ==
    [][IF \E i \in 0..(Len(children) - 1) : optionChange(i)
       THEN \A i \in 0..(Len(children) - 1) :
                optionChange(i) => out' = <<ChangeEvent(children[i + 1].value, i)>>
       ELSE changeEvents(out') = {}]_vars

\* C6 happens: the option at index 1 has just been activated
C6_Witness ==
    /\ Len(children) >= 2
    /\ out = <<ChangeEvent(children[2].value, 1)>>

\* the last handler was the activation of option i
justSelected(i) ==
    /\ i < Len(children)
    /\ out = <<ChangeEvent(children[i + 1].value, i)>>

\* the anchor's text for option i: its label, or else its title
optionText(i) ==
    IF children[i + 1].children # "" THEN children[i + 1].children ELSE children[i + 1].title

C8_UnsearchableIgnoresKeys ==
    [][/\ \A key \in CharKeys :
            ~isSearchable /\ handleMenuKeydown(key) =>
                UNCHANGED <<search, timers, searchClearTimeout, focusedIndex>>
       /\ Len(search') > Len(search) => isSearchable]_vars

\* C8 happens: an open list of object values with no projection, a key
\* pressed on it (the handler made no call) and nothing typed
C8_Witness ==
    /\ isOpen
    /\ ~isSearchable
    /\ focusedIndex = Some(1)
    /\ search = <<>>
    /\ searchClearTimeout = 0
    /\ out = <<>>

\* a request to close
closeRequest ==
    (isOpen /\ handleAnchorClick) \/ handleMenuKeydown("Escape") \/ dropdownClose

ownerCalls(calls) == { calls[k].call : k \in 1..Len(calls) } \cap { "onOpen", "onClose" }

\* C9: with isOpen supplied, open and close requests call onOpen / onClose
\* and leave the internal flag alone, and the effective open state is the
\* caller's isOpen; with isOpen not supplied they set the internal flag and
\* call neither.
C9_OpenOwnershipNotMixed ==
    /\ [](isControlled => isOpen = (controlledOpen = "true") /\ ~uncontrolledOpen)
    /\ [][/\ openOnAnchor =>
                IF isControlled
                THEN ownerCalls(out') = {"onOpen"} /\ UNCHANGED uncontrolledOpen
                ELSE ownerCalls(out') = {} /\ uncontrolledOpen'
          /\ closeRequest =>
                IF isControlled
                THEN ownerCalls(out') = {"onClose"} /\ UNCHANGED uncontrolledOpen
                ELSE ownerCalls(out') = {} /\ ~uncontrolledOpen']_vars

\* C9 happens: a controlled widget has just been asked to open
C9_Witness ==
    /\ isControlled
    /\ ~isOpen
    /\ out = <<Call("onOpen")>>
    /\ ~uncontrolledOpen

\* C10: once the widget is unmounted no clear timer is pending and the
\* clear callback does not run against it.
C10_TimerCanceledOnUnmount ==
    ~mounted => timers = {} /\ out # <<Call("setSearch.unmounted")>>

\* C11 as stated: a click and a Space key press on the anchor each open the
\* menu when it is closed and close it when it is open.
C11_BothActivationsToggle ==
    [][handleAnchorClick \/ handleAnchorKeydown(" ") => isOpen' = ~isOpen]_vars

\* C11: a click on the anchor toggles and a Space key press only opens. With
\* isOpen not supplied a click flips the open state and Space leaves the menu
\* open whether it was open or closed; with isOpen supplied a click calls
\* onClose when open and onOpen when closed, Space calls onOpen, and the open
\* state stays the caller's.
C11_ClickTogglesSpaceOpens ==
    [][/\ handleAnchorClick =>
            IF isControlled
            THEN /\ ownerCalls(out') = (IF isOpen THEN {"onClose"} ELSE {"onOpen"})
                 /\ isOpen' = isOpen
            ELSE isOpen' = ~isOpen
       /\ handleAnchorKeydown(" ") =>
            IF isControlled
            THEN ownerCalls(out') = {"onOpen"} /\ isOpen' = isOpen
            ELSE isOpen']_vars

\* C11 happens: an uncontrolled menu is open with the focus put back on the
\* selection while typed characters are still buffered
C11_Witness ==
    /\ ~isControlled
    /\ isOpen
    /\ search # <<>>
    /\ selectedIndex # Null
    /\ focusedIndex = selectedIndex
    /\ indexOfMatchedOption(search) \notin {-1, selectedIndex[1]}

\* a step of the mounted widget into the open state o
stepTo(o) == Next /\ isOpen' = o

\* Open and Closed are each one step away from every state
noTerminalState ==
    /\ isOpen \/ ENABLED stepTo(TRUE)
    /\ ~isOpen \/ ENABLED stepTo(FALSE)

\* C12 as stated: from Open an Escape key press leads to Closed and asks for
\* the focus on the anchor, the dropdown's onClose leads to Closed from any
\* state, and from every reachable state Open and Closed stay reachable.
C12_CloseLeadsToClosed ==
    /\ [][/\ isOpen /\ handleMenuKeydown("Escape") =>
                ~isOpen' /\ out'[Len(out')] = Call("anchor.focus")
          /\ dropdownClose => ~isOpen']_vars
    /\ []noTerminalState

\* C12: an Escape key press in the open menu and the dropdown's onClose both
\* call close(), and Escape also asks for the focus on the anchor. With
\* isOpen not supplied the next state is Closed; with isOpen supplied onClose
\* is called and the open state stays what the caller supplies. From every
\* state of the mounted widget a step to Open and a step to Closed exist.
C12_CloseRequestsClose ==
    /\ [][/\ isOpen /\ handleMenuKeydown("Escape") =>
                /\ out'[Len(out')] = Call("anchor.focus")
                /\ IF isControlled
                   THEN ownerCalls(out') = {"onClose"} /\ isOpen'
                   ELSE ~isOpen'
          /\ dropdownClose =>
                IF isControlled
                THEN ownerCalls(out') = {"onClose"} /\ isOpen' = isOpen
                ELSE ~isOpen']_vars
    /\ []noTerminalState

\* C12 happens: Escape has just closed an uncontrolled menu
C12_Witness ==
    /\ ~isControlled
    /\ ~isOpen
    /\ out = <<Call("anchor.focus")>>

\* C13 as stated: whenever the menu goes from Open to Closed the search
\* buffer is empty in the resulting state.
C13_SearchClearedOnClose ==
    [][isOpen /\ ~isOpen' => search' = <<>>]_vars

\* C13: closing does not touch the search buffer. An Escape key press, an
\* anchor click on the open menu and the dropdown's onClose leave the buffer
\* and its pending clear as they are, and a non-empty buffer becomes empty
\* only when the clear timer fires.
C13_CloseKeepsSearch ==
    /\ [][closeRequest => UNCHANGED <<search, searchClearTimeout, timers>>]_vars
    /\ [][search # <<>> /\ search' = <<>> => Tick]_vars

\* C13 happens: the menu has just been closed with typed characters still
\* buffered and their clear still pending
C13_Witness ==
    /\ ~isOpen
    /\ search # <<>>
    /\ timers # {}
    /\ sinceKey = 0
    /\ out = closeCalls \o <<Call("anchor.focus")>>

\* C14 as stated: whenever the matcher finds an option whose searchable
\* string starts with the search buffer and focuses it, the buffer is reset
\* to empty.
C14_SearchClearedOnMatch ==
    [][typeAhead /\ indexOfMatchedOption(search') # -1 => search' = <<>>]_vars

\* C14: a match does not clear the search buffer. Every accepted key extends
\* the buffer by that key, and when the matcher finds an option it focuses
\* that option and the buffer keeps all the typed characters.
C14_MatchKeepsSearch ==
    [][\A key \in CharKeys :
          acceptsKey(key) /\ handleMenuKeydown(key) =>
            /\ search' = search \o <<key>>
            /\ indexOfMatchedOption(search') # -1 =>
                  focusedIndex' = Some(indexOfMatchedOption(search'))]_vars

\* C14 happens: the second typed character has just matched an option and
\* both characters are buffered
C14_Witness ==
    /\ isOpen
    /\ Len(search) = 2
    /\ sinceKey = 0
    /\ indexOfMatchedOption(search) # -1
    /\ focusedIndex = Some(indexOfMatchedOption(search))

\* C15: in an open searchable widget, the keystroke after which the search
\* buffer is a prefix of exactly one option's searchable string leaves
\* FocusedIndex at that option's index.
C15_UniquePrefixFocusesOption ==
    [][typeAhead /\ Cardinality(prefixMatches(search')) = 1 =>
          \A i \in prefixMatches(search') : focusedIndex' = Some(i)]_vars

\* the requested value is that of no option
unmatchedValue == value # Undefined /\ markedSelected = {}

\* the operations of the widget can be taken: the anchor and the dropdown's
\* onClose always, the keys of the list and the options while it is open
operationsEnabled ==
    /\ ENABLED handleAnchorClick
    /\ ENABLED handleAnchorKeydown(" ")
    /\ ENABLED dropdownClose
    /\ isOpen =>
        /\ ENABLED handleMenuKeydown("ArrowUp")
        /\ ENABLED handleMenuKeydown("Escape")
        /\ focusedIndex = Null \/ focusedIndex[1] < FocusLimit =>
              ENABLED handleMenuKeydown("ArrowDown")
        /\ isSearchable /\ Len(search) < MaxSearch => ENABLED typeAhead
        /\ \A i \in 0..(Len(children) - 1) : ENABLED optionChange(i)

\* C16: a requested value that is the value of no option is handled as no
\* selection. The anchor shows the placeholder, there is no selected index
\* and no option marked selected, every operation stays enabled, and an open
\* action on the anchor focuses index 0 as it does with no value.
C16_UnmatchedValueIsNoSelection ==
    /\ [](unmatchedValue =>
            /\ selectedIndex = Null
            /\ displayedValue = Placeholder
            /\ operationsEnabled)
    /\ [][unmatchedValue /\ openOnAnchor => focusedIndex' = Some(0)]_vars

\* C16 happens: the widget has just been opened over a non-empty list with a
\* requested value that is none of its options
C16_Witness ==
    /\ unmatchedValue
    /\ children # <<>>
    /\ ~isControlled
    /\ isOpen
    /\ focusedIndex = Some(0)
    /\ search = <<>>

\* C17: the index the widget treats as selected is that of the option marked
\* selected, for every option list and value, and the anchor shows the
\* placeholder only if no option is marked selected.
C17_SelectionIsDeepEquality ==
    /\ selectedIndex # Null => selectedIndex[1] \in markedSelected
    /\ markedSelected # {} => selectedIndex # Null
    /\ displayedValue = Placeholder => markedSelected = {}

\* C18: at most one clear timer is pending at any time. Every accepted
\* keystroke leaves exactly one, the one it scheduled, due clearSearchAfter
\* later, and the buffer is never emptied earlier than clearSearchAfter
\* after the most recent accepted keystroke.
C18_SingleClearTimer ==
    /\ [](Cardinality(timers) <= 1)
    /\ [][typeAhead =>
            /\ timers' = { [id |-> searchClearTimeout', left |-> clearSearchAfter] }
            /\ sinceKey' = 0]_vars
    /\ [][search # <<>> /\ search' = <<>> => sinceKey' >= clearSearchAfter]_vars

\* C18 happens: a second keystroke arrived while the clear of the first was
\* pending, and one clear is pending, due clearSearchAfter later
C18_Witness ==
    /\ Len(search) = 2
    /\ sinceKey = 0
    /\ Cardinality(timers) = 1
    /\ \A t \in timers : t.left = clearSearchAfter /\ t.id = searchClearTimeout

\* C19: whenever the effective open state goes from Closed to Open, also
\* when the owner opens the menu by changing isOpen, FocusedIndex in the
\* first Open state is the selection's index, or 0 if there is none.
C19_FocusResetOnEveryOpen ==
    [][~isOpen /\ isOpen' => (focusedIndex = OrZero(selectedIndex))']_vars

\* C20: activating an option leaves the internal open flag, FocusedIndex,
\* the search buffer and the pending clear timer unchanged, and with the
\* open state uncontrolled the menu is still open after the selection.
C20_SelectionLeavesInteractionState ==
    [][\A i \in 0..(Len(children) - 1) :
          optionChange(i) =>
            /\ UNCHANGED <<uncontrolledOpen, focusedIndex, search, searchClearTimeout,
                           timers>>
            /\ ownerCalls(out') = {}
            /\ ~isControlled => isOpen']_vars

\* C20 happens: an option of an uncontrolled menu has just been selected
\* while a typed character was buffered, and the menu is open
C20_Witness ==
    /\ ~isControlled
    /\ isOpen
    /\ search # <<>>
    /\ timers # {}
    /\ focusedIndex # Null
    /\ \E i \in 0..(Len(children) - 1) : justSelected(i)

====
